---- MODULE Spec2Model ----
(***************************************************************************)
(* State-machine model of the video player component                       *)
(* (src/src/app/components/VideoPlayer.tsx): the playback engine it        *)
(* drives, the browser globals it touches (window.YT, the injected script  *)
(* tags, localStorage, timers) and the component's hook state and refs.    *)
(*                                                                         *)
(* Units: trim positions are percentages; durations are whole seconds;     *)
(* playback times are hundredths of a second, so that the code's           *)
(* (percent / 100) * duration is the exact integer percent * duration.     *)
(*                                                                         *)
(* One step of the model is one browser task: an event handler, a timer    *)
(* callback or an engine notification, followed by the re-render it        *)
(* causes and the effects of that render.                                  *)
(***************************************************************************)
EXTENDS Integers, Sequences, FiniteSets, TLC

\* ------------------------------------------------------------- bounds
MaxMounts == 2          \* mounts of the component in one page lifetime
MaxSelects == 2         \* selection changes per mount
MaxGestures == 1        \* drag gestures per mount
MaxPage == 4            \* highest page number the dashboard asks for
MaxItems == 7           \* largest dataset of the listing API on its own
MaxLimit == 3           \* largest limit parameter sent to it
MaxSeconds == 130       \* longest time formatted second by second

\* ------------------------------------------------------------- inputs
VideoIds == {"a", "b"}
NoVideo == "null"               \* selectedVideo === null
ChannelItem == "channel"        \* a result whose id.videoId is undefined
Selections == VideoIds \cup {NoVideo, ChannelItem}
RawPositions == {-10, 85}       \* pointer position on the track, percent
TrackPositions == {-10, 0, 50, 85, 100, 120}   \* the same, off both ends too
VideoLength(id) == IF id = "a" THEN 100 ELSE 60   \* seconds, as the engine reports
\* Positions playback or an external seek reaches, hundredths of a second: the
\* beginning, and 80 s, which is the end of the range {20,80} of video "a".
EngineTimes == {0, 8000}

\* YT.PlayerState codes
UNSTARTED == -1
ENDED == 0
PLAYING == 1
PAUSED == 2
BUFFERING == 3
CUED == 5
PlayerStates == {UNSTARTED, ENDED, PLAYING, PAUSED, BUFFERING, CUED}

MIN_GAP == 5
PAGE_SIZE == 10
DatasetSize == 25               \* items of /data/videos.json behind the dashboard
\* Times beyond MaxSeconds, hundredths of a second: around 10 and 60 minutes.
LongTimes == {59999, 60000, 60500, 359999, 360000, 366100}
None == "none"

VARIABLES
    \* browser globals
    windowYT,           \* window.YT is defined
    scriptTags,         \* iframe_api script tags inserted into the page
    scriptsLoaded,      \* how many of them have executed
    apiReadyCb,         \* mount whose initPlayer is window.onYouTubeIframeAPIReady (0: unset)
    localStorage,       \* storage key -> stored text
    \* component lifecycle and prop
    phase,              \* "unmounted" | "mounted" | "destroyed"
    mountGen,           \* number of mounts so far
    selectedVideo,      \* the selectedVideo prop
    hasCleanup,         \* the init effect returned its cleanup
    \* hook state
    isPlaying, videoDuration, currentTime, trimStart, trimEnd,
    isDraggingState, videoId, playerReady, isVideoLoading,
    \* refs
    playerInstance,     \* playerInstance.current !== null
    intervalRef,        \* intervalRef.current !== null
    trimStartRef, trimEndRef, isDraggingRef,
    \* timers
    activePolls,        \* setInterval timers of this mount not yet cleared
    retryChains,        \* pending setTimeout(checkDuration, 100) of this mount
    leakedTimers,       \* timers of earlier mounts still scheduled
    \* playback engine
    engConstructed,     \* new YT.Player(...) was called by this mount
    engDestroyed,       \* destroy() was called on it
    engReadyFired,      \* its onReady notification was delivered
    engVideo,           \* the cued media
    engDuration,        \* getDuration(), seconds
    engTime,            \* getCurrentTime(), hundredths of a second
    \* observation of the last step
    sent,               \* engine commands it issued, in order, each with its handler
    \* history
    selects,            \* selection changes in this mount
    gestures,           \* drag gestures started in this mount
    lastSaved,          \* video id -> the range last persisted for it
    \* dashboard (the parent of the player) and the listing API it calls
    allData,            \* number of items of /data/videos.json; item i is the number i
    videos, page, hasMore, isLoadingMoreVideos, error,
    requests,           \* fetches sent and not yet answered, oldest first
    replies,            \* answers not yet delivered to the awaiting fetchMoreVideos
    \* time display
    timeInput,          \* the time a render passes to formatTime, hundredths of a second
    timeShown,          \* the text it puts on the page
    \* the earlier version of the player (src/unnamed/part_001)
    earlyPlayer         \* its whole state, engine and browser globals, as one record

playerVars == <<windowYT, scriptTags, scriptsLoaded, apiReadyCb, localStorage,
          phase, mountGen, selectedVideo, hasCleanup,
          isPlaying, videoDuration, currentTime, trimStart, trimEnd,
          isDraggingState, videoId, playerReady, isVideoLoading,
          playerInstance, intervalRef, trimStartRef, trimEndRef, isDraggingRef,
          activePolls, retryChains, leakedTimers,
          engConstructed, engDestroyed, engReadyFired, engVideo, engDuration, engTime,
          sent, selects, gestures, lastSaved>>
dashboardVars == <<allData, videos, page, hasMore, isLoadingMoreVideos, error,
                   requests, replies>>
displayVars == <<timeInput, timeShown>>
earlyVars == <<earlyPlayer>>
vars == <<playerVars, dashboardVars, displayVars, earlyVars>>

\* The whole state as one record, so that handlers compose as functions.
World ==
    [windowYT |-> windowYT, scriptTags |-> scriptTags, scriptsLoaded |-> scriptsLoaded,
     apiReadyCb |-> apiReadyCb, localStorage |-> localStorage,
     phase |-> phase, mountGen |-> mountGen, selectedVideo |-> selectedVideo,
     hasCleanup |-> hasCleanup,
     isPlaying |-> isPlaying, videoDuration |-> videoDuration, currentTime |-> currentTime,
     trimStart |-> trimStart, trimEnd |-> trimEnd, isDraggingState |-> isDraggingState,
     videoId |-> videoId, playerReady |-> playerReady, isVideoLoading |-> isVideoLoading,
     playerInstance |-> playerInstance, intervalRef |-> intervalRef,
     trimStartRef |-> trimStartRef, trimEndRef |-> trimEndRef, isDraggingRef |-> isDraggingRef,
     activePolls |-> activePolls, retryChains |-> retryChains, leakedTimers |-> leakedTimers,
     engConstructed |-> engConstructed, engDestroyed |-> engDestroyed,
     engReadyFired |-> engReadyFired, engVideo |-> engVideo,
     engDuration |-> engDuration, engTime |-> engTime,
     sent |-> sent, selects |-> selects, gestures |-> gestures,
     lastSaved |-> lastSaved, op |-> "none", thrown |-> FALSE]

Apply(w) ==
    /\ windowYT' = w.windowYT /\ scriptTags' = w.scriptTags
    /\ scriptsLoaded' = w.scriptsLoaded /\ apiReadyCb' = w.apiReadyCb
    /\ localStorage' = w.localStorage
    /\ phase' = w.phase /\ mountGen' = w.mountGen /\ selectedVideo' = w.selectedVideo
    /\ hasCleanup' = w.hasCleanup
    /\ isPlaying' = w.isPlaying /\ videoDuration' = w.videoDuration
    /\ currentTime' = w.currentTime /\ trimStart' = w.trimStart /\ trimEnd' = w.trimEnd
    /\ isDraggingState' = w.isDraggingState /\ videoId' = w.videoId
    /\ playerReady' = w.playerReady /\ isVideoLoading' = w.isVideoLoading
    /\ playerInstance' = w.playerInstance /\ intervalRef' = w.intervalRef
    /\ trimStartRef' = w.trimStartRef /\ trimEndRef' = w.trimEndRef
    /\ isDraggingRef' = w.isDraggingRef
    /\ activePolls' = w.activePolls /\ retryChains' = w.retryChains
    /\ leakedTimers' = w.leakedTimers
    /\ engConstructed' = w.engConstructed /\ engDestroyed' = w.engDestroyed
    /\ engReadyFired' = w.engReadyFired /\ engVideo' = w.engVideo
    /\ engDuration' = w.engDuration /\ engTime' = w.engTime
    /\ sent' = w.sent /\ selects' = w.selects
    /\ gestures' = w.gestures /\ lastSaved' = w.lastSaved
    /\ UNCHANGED <<dashboardVars, displayVars, earlyVars>>

\* A step starts with an empty command log; op names the handler that runs,
\* thrown records an exception that escaped from it.
Begin(op) == [World EXCEPT !.op = op, !.sent = <<>>]

Min(a, b) == IF a < b THEN a ELSE b
Max(a, b) == IF a > b THEN a ELSE b


\* ------------------------------------------------------------- playback engine
CueCmd(id, by) == [op |-> "cueVideoById", id |-> id, t |-> -1, by |-> by]
SeekCmd(t, by) == [op |-> "seekTo", id |-> None, t |-> t, by |-> by]
PlayCmd(by) == [op |-> "playVideo", id |-> None, t |-> -1, by |-> by]
PauseCmd(by) == [op |-> "pauseVideo", id |-> None, t |-> -1, by |-> by]

\* playerInstance.current.cueVideoById(id): the media is replaced, its
\* duration is unknown (0) until the engine has loaded its metadata.
cueVideoById(w, id) ==
    [w EXCEPT !.sent = Append(@, CueCmd(id, w.op)),
              !.engVideo = id, !.engDuration = 0, !.engTime = 0]

\* playerInstance.current.seekTo(t, true)
seekTo(w, t) == [w EXCEPT !.sent = Append(@, SeekCmd(t, w.op)), !.engTime = t]

playVideo(w) == [w EXCEPT !.sent = Append(@, PlayCmd(w.op))]
pauseVideo(w) == [w EXCEPT !.sent = Append(@, PauseCmd(w.op))]

\* playerInstance.current?.getDuration() || 0
getDuration(w) == IF w.playerInstance THEN w.engDuration ELSE 0

\* ------------------------------------------------------------- trim store
\* `yt-trim-${videoId}`
StorageKey(id) == <<"yt-trim-", id>>
StorageKeys == {StorageKey(id) : id \in VideoIds}
NoItem == <<>>                  \* getItem returns null

\* JSON.stringify({start, end}): the members in insertion order.
JSONstringify(start, end) == <<<<"start", start>>, <<"end", end>>>>

\* JSON.parse(text) followed by the destructuring { start, end }.
Member(text, key) == text[CHOOSE i \in 1..Len(text) : text[i][1] = key][2]
JSONparse(text) == [start |-> Member(text, "start"), end |-> Member(text, "end")]

\* JSON.parse throws a SyntaxError unless every member of the text is complete.
SyntaxOK(text) == \A i \in 1..Len(text) : Len(text[i]) = 2

\* A text cut off after the key of its second member: {"start":20,"end":
TruncatedItem == <<<<"start", 20>>, <<"end">>>>

\* ------------------------------------------------------------- component
\* The container <div ref={playerContainerRef}> and the slider are rendered
\* only when a video is selected; React clears the refs on unmount.
ContainerPresent(w) == w.phase = "mounted" /\ w.selectedVideo # NoVideo

\* selectedVideo.id.videoId (undefined for a channel result)
VideoIdOf(sel) == IF sel \in VideoIds THEN sel ELSE None

stopTimeUpdate(w) ==
    IF w.intervalRef
    THEN [w EXCEPT !.activePolls = @ - 1, !.intervalRef = FALSE]
    ELSE w

\* Variant: the new interval is created without clearing the previous one.
startTimeUpdate_NoStop(w) ==
    [w EXCEPT !.activePolls = @ + 1, !.intervalRef = TRUE]

startTimeUpdate(w) ==
    LET s == stopTimeUpdate(w)
    IN [s EXCEPT !.activePolls = @ + 1, !.intervalRef = TRUE]

\* Variant: the poll is stopped on PAUSED and ENDED only.
handlePlayerStateChange_StopsOnPauseOnly(w, data) ==
    LET isNowPlaying == (data = PLAYING)
        w1 == [w EXCEPT !.isPlaying = isNowPlaying]
    IN IF isNowPlaying
       THEN startTimeUpdate([w1 EXCEPT !.videoDuration = getDuration(w)])
       ELSE IF data \in {PAUSED, ENDED} THEN stopTimeUpdate(w1) ELSE w1

handlePlayerStateChange(w, data) ==
    LET isNowPlaying == (data = PLAYING)
        w1 == [w EXCEPT !.isPlaying = isNowPlaying]
    IN IF isNowPlaying
       THEN startTimeUpdate([w1 EXCEPT !.videoDuration = getDuration(w)])
       ELSE stopTimeUpdate(w1)

initPlayer(w) ==
    IF w.playerInstance \/ ~ContainerPresent(w)
    THEN w
    ELSE [w EXCEPT !.playerInstance = TRUE,
                   !.engConstructed = TRUE, !.engDestroyed = FALSE,
                   !.engReadyFired = FALSE, !.engVideo = None,
                   !.engDuration = 0, !.engTime = 0]

\* Variant: the tick only loops back at the end, it never seeks forward.
timeUpdateTick_NoForwardSeek(w) ==
    IF ~w.playerInstance THEN w
    ELSE
    LET time == w.engTime
        w1 == [w EXCEPT !.currentTime = time]
        duration == w.engDuration
        trimStartTime == w.trimStartRef * duration
        trimEndTime == w.trimEndRef * duration
    IN IF w.isDraggingRef # None THEN w1
       ELSE IF time >= trimEndTime
            THEN [seekTo(w1, trimStartTime) EXCEPT !.currentTime = trimStartTime]
            ELSE w1

\* Variant: the tick enforces the boundaries during a drag gesture as well.
timeUpdateTick_IgnoresDrag(w) ==
    IF ~w.playerInstance THEN w
    ELSE
    LET time == w.engTime
        w1 == [w EXCEPT !.currentTime = time]
        duration == w.engDuration
        trimStartTime == w.trimStartRef * duration
        trimEndTime == w.trimEndRef * duration
    IN IF time >= trimEndTime
       THEN [seekTo(w1, trimStartTime) EXCEPT !.currentTime = trimStartTime]
       ELSE IF time < trimStartTime
            THEN seekTo(w1, trimStartTime)
            ELSE w1

\* The time-poll callback passed to setInterval.
timeUpdateTick(w) ==
    IF ~w.playerInstance THEN w
    ELSE
    LET time == w.engTime
        w1 == [w EXCEPT !.currentTime = time]
        duration == w.engDuration
        trimStartTime == w.trimStartRef * duration
        trimEndTime == w.trimEndRef * duration
    IN IF w.isDraggingRef # None THEN w1
       ELSE IF time >= trimEndTime
            THEN [seekTo(w1, trimStartTime) EXCEPT !.currentTime = trimStartTime]
            ELSE IF time < trimStartTime
                 THEN seekTo(w1, trimStartTime)
                 ELSE w1

\* Variant: the duration is checked once, with no retry.
checkDuration_NoRetry(w) ==
    LET duration == getDuration(w)
    IN IF duration > 0
       THEN [w EXCEPT !.videoDuration = duration,
                      !.currentTime = w.trimStartRef * duration,
                      !.isVideoLoading = FALSE]
       ELSE w

\* Variant: the time display is left at the beginning of the video.
checkDuration_FromZero(w) ==
    LET duration == getDuration(w)
    IN IF duration > 0
       THEN [w EXCEPT !.videoDuration = duration,
                      !.currentTime = 0,
                      !.isVideoLoading = FALSE]
       ELSE [w EXCEPT !.retryChains = @ + 1]

checkDuration(w) ==
    LET duration == getDuration(w)
    IN IF duration > 0
       THEN [w EXCEPT !.videoDuration = duration,
                      !.currentTime = w.trimStartRef * duration,
                      !.isVideoLoading = FALSE]
       ELSE [w EXCEPT !.retryChains = @ + 1]

\* "Handle video changes" effect; r is the render whose values it closes over.
HandleVideoChanges(r, w) ==
    IF r.selectedVideo = NoVideo \/ ~r.playerReady \/ ~w.playerInstance
    THEN w
    ELSE
    LET newVideoId == VideoIdOf(r.selectedVideo)
        savedTrim == w.localStorage[StorageKey(newVideoId)]
        startTrim == IF savedTrim # NoItem THEN JSONparse(savedTrim).start ELSE 0
        endTrim == IF savedTrim # NoItem THEN JSONparse(savedTrim).end ELSE 100
    IN IF newVideoId # None /\ newVideoId # r.videoId
       THEN IF savedTrim # NoItem /\ ~SyntaxOK(savedTrim)
            THEN [w EXCEPT !.thrown = TRUE]
            ELSE
            cueVideoById([w EXCEPT !.isVideoLoading = TRUE,
                                   !.videoId = newVideoId,
                                   !.trimStart = startTrim,
                                   !.trimEnd = endTrim],
                         newVideoId)
       ELSE w

\* "Update current time once duration is available" effect.
UpdateCurrentTime(r, w) ==
    IF r.videoId # None /\ w.playerInstance /\ r.playerReady /\ r.isVideoLoading
    THEN checkDuration(w)
    ELSE w

\* "Keep refs in sync with state" effects.
SyncRefs(r, w) == [w EXCEPT !.trimStartRef = r.trimStart, !.trimEndRef = r.trimEnd]

HookState(w) ==
    <<w.selectedVideo, w.isPlaying, w.videoDuration, w.currentTime, w.trimStart,
      w.trimEnd, w.isDraggingState, w.videoId, w.playerReady, w.isVideoLoading>>
\* Variant: playerReady is missing from the dependency list.
VideoChangeDeps_NoReady(w) == <<w.selectedVideo, w.videoId>>
VideoChangeDeps(w) == <<w.selectedVideo, w.playerReady, w.videoId>>
CurrentTimeDeps(w) == <<w.videoId, w.playerReady, w.isVideoLoading>>

\* The effects of the render r that follows the render old, in declaration order.
Effects(old, r) ==
    LET w1 == SyncRefs(r, r)
        w2 == IF VideoChangeDeps(old) # VideoChangeDeps(r)
              THEN HandleVideoChanges(r, w1) ELSE w1
        w3 == IF CurrentTimeDeps(old) # CurrentTimeDeps(r)
              THEN UpdateCurrentTime(r, w2) ELSE w2
    IN w3

\* The cleanup the init effect returns.
Cleanup(w) ==
    LET s == stopTimeUpdate(w)
    IN IF s.playerInstance
       THEN [s EXCEPT !.engDestroyed = TRUE, !.playerInstance = FALSE]
       ELSE s

\* The player is unmounted, which runs the cleanup: by its parent, or by React
\* when an exception escaped from an effect (the dashboard's error boundary then
\* shows its fallback in place of the whole dashboard, and the state updates the
\* effect had queued before it threw are never rendered).
Teardown(w) ==
    [(IF w.hasCleanup THEN Cleanup(w) ELSE w) EXCEPT !.phase = "destroyed",
                                                     !.thrown = FALSE]

\* Re-render after a handler changed hook state or the prop, until no effect
\* sets state any more. An unmounted component neither renders nor runs effects.
RECURSIVE Commit(_, _)
Commit(old, w) ==
    IF w.thrown THEN Teardown(w)
    ELSE IF w.phase # "mounted" \/ HookState(old) = HookState(w)
    THEN w
    ELSE LET n == Effects(old, w) IN Commit(w, n)


\* ------------------------------------------------------------- listing API
\* Array.prototype.slice(startIndex, endIndex) for 0 <= startIndex <= endIndex
Slice(items, startIndex, endIndex) ==
    SubSeq(items, startIndex + 1, Min(endIndex, Len(items)))

\* Math.ceil(a / b) for a >= 0, b >= 1
Ceil(a, b) == (a + b - 1) \div b

\* Variant: the last full page still announces a next page.
getVideosData_NextOnLastPage(n, pg, limit) ==
    LET startIndex == (pg - 1) * limit
        endIndex == pg * limit
        allItems == [i \in 1..n |-> i]
    IN [items |-> Slice(allItems, startIndex, endIndex),
        pagination |-> [total |-> Len(allItems),
                        page |-> pg,
                        limit |-> limit,
                        totalPages |-> Ceil(Len(allItems), limit),
                        hasNextPage |-> endIndex <= Len(allItems),
                        hasPrevPage |-> pg > 1]]

\* getVideosData(page, limit) over a dataset of n items.
getVideosData(n, pg, limit) ==
    LET startIndex == (pg - 1) * limit
        endIndex == pg * limit
        allItems == [i \in 1..n |-> i]
    IN [items |-> Slice(allItems, startIndex, endIndex),
        pagination |-> [total |-> Len(allItems),
                        page |-> pg,
                        limit |-> limit,
                        totalPages |-> Ceil(Len(allItems), limit),
                        hasNextPage |-> endIndex < Len(allItems),
                        hasPrevPage |-> pg > 1]]

\* The route handler: the data as JSON, or status 500 when reading it failed.
ErrorBody == [error |-> "Failed to load data"]
GET(request, dataReadable) ==
    IF dataReadable
    THEN [ok |-> TRUE, status |-> 200,
          body |-> getVideosData(allData, request.page, request.limit)]
    ELSE [ok |-> FALSE, status |-> 500, body |-> ErrorBody]

\* ------------------------------------------------------------- time display
DigitChars == <<"0", "1", "2", "3", "4", "5", "6", "7", "8", "9">>

\* String(n) for a natural number n
RECURSIVE NumberToString(_)
NumberToString(n) ==
    IF n < 10 THEN <<DigitChars[n + 1]>>
    ELSE NumberToString(n \div 10) \o <<DigitChars[(n % 10) + 1]>>

\* Variant: the seconds are not padded.
formatTime_NoPad(t) ==
    LET minutes == t \div 6000
        remainingSeconds == (t % 6000) \div 100
    IN NumberToString(minutes) \o <<":">> \o NumberToString(remainingSeconds)

\* formatTime(seconds), with seconds = t / 100.
formatTime(t) ==
    LET minutes == t \div 6000
        remainingSeconds == (t % 6000) \div 100
    IN NumberToString(minutes) \o <<":">>
          \o (IF remainingSeconds < 10 THEN <<"0">> ELSE <<>>)
          \o NumberToString(remainingSeconds)

\* ------------------------------------------------------------- initial state
Fresh(w, sel) ==
    [w EXCEPT !.phase = "mounted", !.mountGen = @ + 1, !.selectedVideo = sel,
              !.hasCleanup = FALSE,
              !.isPlaying = FALSE, !.videoDuration = 0, !.currentTime = 0,
              !.trimStart = 0, !.trimEnd = 100, !.isDraggingState = None,
              !.videoId = None, !.playerReady = FALSE, !.isVideoLoading = FALSE,
              !.playerInstance = FALSE, !.intervalRef = FALSE,
              !.trimStartRef = 0, !.trimEndRef = 100, !.isDraggingRef = None,
              !.leakedTimers = @ + w.activePolls + w.retryChains,
              !.activePolls = 0, !.retryChains = 0,
              !.engConstructed = FALSE, !.engDestroyed = FALSE,
              !.engReadyFired = FALSE, !.engVideo = None,
              !.engDuration = 0, !.engTime = 0,
              !.selects = 0, !.gestures = 0]

\* The page before the player is first mounted. The store holds what an earlier
\* visit persisted: a range for video "a", nothing for video "b".
EarlierRange == <<20, 80>>

\* The dashboard as the page renders it: the first page of the listing, fetched
\* on the server, and nothing requested yet.
InitDashboard ==
    /\ allData = DatasetSize
    /\ videos = getVideosData(DatasetSize, 1, PAGE_SIZE).items
    /\ hasMore = getVideosData(DatasetSize, 1, PAGE_SIZE).pagination.hasNextPage
    /\ page = 1 /\ isLoadingMoreVideos = FALSE /\ error = "null"
    /\ requests = <<>> /\ replies = <<>>

InitDisplay == timeInput = 0 /\ timeShown = <<>>

\* The player before it is first mounted.
InitPlayer ==
    /\ windowYT = FALSE /\ scriptTags = 0 /\ scriptsLoaded = 0 /\ apiReadyCb = 0
    /\ localStorage = [k \in StorageKeys |->
                          IF k = StorageKey("a")
                          THEN JSONstringify(EarlierRange[1], EarlierRange[2]) ELSE NoItem]
    /\ phase = "unmounted" /\ mountGen = 0 /\ selectedVideo = NoVideo
    /\ hasCleanup = FALSE
    /\ isPlaying = FALSE /\ videoDuration = 0 /\ currentTime = 0
    /\ trimStart = 0 /\ trimEnd = 100 /\ isDraggingState = None
    /\ videoId = None /\ playerReady = FALSE /\ isVideoLoading = FALSE
    /\ playerInstance = FALSE /\ intervalRef = FALSE
    /\ trimStartRef = 0 /\ trimEndRef = 100 /\ isDraggingRef = None
    /\ activePolls = 0 /\ retryChains = 0 /\ leakedTimers = 0
    /\ engConstructed = FALSE /\ engDestroyed = FALSE /\ engReadyFired = FALSE
    /\ engVideo = None /\ engDuration = 0 /\ engTime = 0
    /\ sent = <<>> /\ selects = 0 /\ gestures = 0
    /\ lastSaved = [id \in VideoIds |->
                       IF id = "a" THEN EarlierRange ELSE <<>>]

\* The earlier version of the player (src/unnamed/part_001) before it is mounted:
\* the useState initial values, the browser globals and an engine not yet built.
EarlyUnmounted ==
    [mounted |-> FALSE, selectedVideo |-> NoVideo,
     windowYT |-> FALSE, scriptPending |-> FALSE,
     localStorage |-> [k \in StorageKeys |->
                          IF k = StorageKey("a")
                          THEN JSONstringify(EarlierRange[1], EarlierRange[2]) ELSE NoItem],
     isPlaying |-> FALSE, videoDuration |-> 0, currentTime |-> 0,
     trimStart |-> 0, trimEnd |-> 100, isDragging |-> None,
     videoId |-> None, playerReady |-> FALSE,
     playerInstance |-> FALSE, intervalRef |-> FALSE,
     closure |-> [selectedVideo |-> NoVideo, isPlaying |-> FALSE, videoDuration |-> 0,
                  trimStart |-> 0, trimEnd |-> 100],
     poll |-> [selectedVideo |-> NoVideo, isPlaying |-> FALSE, videoDuration |-> 0,
               trimStart |-> 0, trimEnd |-> 100],
     durationTimers |-> 0,
     engReadyFired |-> FALSE, engVideo |-> None, engState |-> UNSTARTED,
     engDuration |-> 0, engTime |-> 0,
     sent |-> <<>>, selects |-> 0, gestures |-> 0, op |-> "none"]

InitEarlyPlayer == earlyPlayer = EarlyUnmounted

Init == InitPlayer /\ InitDashboard /\ InitDisplay /\ InitEarlyPlayer

\* ------------------------------------------------------------- lifecycle
\* "Initialize player" effect, run once after the first render.
InitializePlayer(w) ==
    IF ~ContainerPresent(w) THEN w
    ELSE LET c == [w EXCEPT !.hasCleanup = TRUE]
         IN IF ~c.windowYT
            THEN [c EXCEPT !.scriptTags = @ + 1, !.apiReadyCb = c.mountGen]
            ELSE initPlayer(c)

\* The component is mounted with some selection: first render and its effects.
FirstRender(sel) ==
    LET w0 == Fresh(Begin("mount"), sel)
        w1 == InitializePlayer(SyncRefs(w0, w0))
        w2 == UpdateCurrentTime(w0, HandleVideoChanges(w0, w1))
    IN Commit(w0, w2)

Mount(sel) ==
    /\ phase = "unmounted"
    /\ Apply(FirstRender(sel))

\* The component is mounted again after it was torn down (navigation back to
\* the page, or the development-mode double invocation of effects).
Remount(sel) ==
    /\ phase = "destroyed"
    /\ mountGen < MaxMounts
    /\ Apply(FirstRender(sel))

Unmount ==
    /\ phase = "mounted"
    /\ LET w0 == Begin("unmount")
       IN Apply(Teardown(w0))

\* An injected iframe_api script executes: it defines window.YT and calls
\* window.onYouTubeIframeAPIReady, the initPlayer of the mount that set it last.
ScriptLoaded ==
    /\ scriptsLoaded < scriptTags
    /\ LET w0 == [Begin("scriptReady") EXCEPT !.windowYT = TRUE,
                                                 !.scriptsLoaded = @ + 1]
           w1 == IF w0.apiReadyCb = w0.mountGen THEN initPlayer(w0) ELSE w0
       IN Apply(Commit(w0, w1))

\* The parent passes another selectedVideo.
Select(sel) ==
    /\ phase = "mounted"
    /\ sel # selectedVideo
    /\ selects < MaxSelects
    /\ LET w0 == Begin("select")
           w1 == [w0 EXCEPT !.selectedVideo = sel, !.selects = @ + 1]
       IN Apply(Commit(w0, w1))

\* ------------------------------------------------------------- engine notifications
\* events.onReady: () => setPlayerReady(true)
OnReady ==
    /\ engConstructed /\ ~engReadyFired
    /\ LET w0 == [Begin("onReady") EXCEPT !.engReadyFired = TRUE]
           w1 == [w0 EXCEPT !.playerReady = TRUE]
       IN Apply(Commit(w0, w1))

\* events.onStateChange
OnStateChange(data) ==
    /\ engConstructed /\ engReadyFired
    /\ LET w0 == Begin("onStateChange")
       IN Apply(Commit(w0, handlePlayerStateChange(w0, data)))

\* The engine has loaded the metadata of the cued media.
EngineDuration ==
    /\ engConstructed /\ ~engDestroyed
    /\ engVideo # None /\ engDuration = 0
    /\ Apply([Begin("engine") EXCEPT !.engDuration = VideoLength(engVideo)])

\* Playback, or a seek made outside the component, moves the position.
EngineTime(t) ==
    /\ engConstructed /\ ~engDestroyed
    /\ engDuration > 0 /\ t # engTime /\ t <= 100 * engDuration
    /\ Apply([Begin("engine") EXCEPT !.engTime = t])

\* ------------------------------------------------------------- timers
\* The 200 ms interval fires.
Tick ==
    /\ activePolls > 0
    /\ LET w0 == Begin("tick")
       IN \E w \in {Commit(w0, timeUpdateTick(w0))} : Apply(w)

\* A setTimeout(checkDuration, 100) fires.
RetryFire ==
    /\ retryChains > 0
    /\ LET w0 == Begin("checkDuration")
           w1 == checkDuration([w0 EXCEPT !.retryChains = @ - 1])
       IN \E w \in {Commit(w0, w1)} : Apply(w)


\* ------------------------------------------------------------- user input
\* The transport button and the handles exist only in the render with a selection.
ControlsRendered == phase = "mounted" /\ selectedVideo # NoVideo

\* The document listeners of the drag effect are attached while isDraggingState is set.
DragListenersAttached == phase = "mounted" /\ isDraggingState # None

\* Variant: play only seeks forward to the start, never back from the end.
togglePlayPause_NoEndCheck(w) ==
    IF ~w.playerInstance THEN w
    ELSE IF w.isPlaying
    THEN pauseVideo(w)
    ELSE
    LET duration == w.engDuration
        trimStartTime == w.trimStartRef * duration
        currentPos == w.engTime
    IN IF currentPos < trimStartTime
       THEN playVideo(seekTo(w, trimStartTime))
       ELSE playVideo(w)

togglePlayPause(w) ==
    IF ~w.playerInstance THEN w
    ELSE IF w.isPlaying
    THEN pauseVideo(w)
    ELSE
    LET duration == w.engDuration
        trimStartTime == w.trimStartRef * duration
        trimEndTime == w.trimEndRef * duration
        currentPos == w.engTime
    IN IF currentPos >= trimEndTime
       THEN playVideo(seekTo(w, trimStartTime))
       ELSE IF currentPos < trimStartTime
            THEN playVideo(seekTo(w, trimStartTime))
            ELSE playVideo(w)

setIsDragging(w, value) ==
    [w EXCEPT !.isDraggingRef = value, !.isDraggingState = value]

handleDragStart(w, handle) == setIsDragging(w, handle)

\* Variant: the handle is clamped to the track only, not against the other handle.
handleMouseMove_NoGap(w, rawPosition) ==
    IF w.isDraggingState = None \/ ~ContainerPresent(w) THEN w
    ELSE
    LET newPosition == Max(0, Min(100, rawPosition))
    IN IF w.isDraggingState = "left"
       THEN [w EXCEPT !.trimStart = newPosition]
       ELSE [w EXCEPT !.trimEnd = newPosition]

\* Variant: the position is not constrained to the track (0..100).
handleMouseMove_NoTrackClamp(w, rawPosition) ==
    IF w.isDraggingState = None \/ ~ContainerPresent(w) THEN w
    ELSE
    LET newPosition == rawPosition
    IN IF w.isDraggingState = "left"
       THEN [w EXCEPT !.trimStart = Min(newPosition, w.trimEnd - MIN_GAP)]
       ELSE [w EXCEPT !.trimEnd = Max(newPosition, w.trimStart + MIN_GAP)]

\* Variant: only the left handle is kept away from the other one.
handleMouseMove_GapOnLeftOnly(w, rawPosition) ==
    IF w.isDraggingState = None \/ ~ContainerPresent(w) THEN w
    ELSE
    LET newPosition == Max(0, Min(100, rawPosition))
    IN IF w.isDraggingState = "left"
       THEN [w EXCEPT !.trimStart = Min(newPosition, w.trimEnd - MIN_GAP)]
       ELSE [w EXCEPT !.trimEnd = newPosition]

\* newPosition is ((clientX - left) / width) * 100, the raw track position.
handleMouseMove(w, rawPosition) ==
    IF w.isDraggingState = None \/ ~ContainerPresent(w) THEN w
    ELSE
    LET newPosition == Max(0, Min(100, rawPosition))
    IN IF w.isDraggingState = "left"
       THEN [w EXCEPT !.trimStart = Min(newPosition, w.trimEnd - MIN_GAP)]
       ELSE [w EXCEPT !.trimEnd = Max(newPosition, w.trimStart + MIN_GAP)]

\* Variant: the release persists the boundaries in seconds instead of percent.
handleMouseUp_SavesSeconds(w) ==
    LET duration == w.engDuration
        saved ==
            [w EXCEPT !.localStorage[StorageKey(w.videoId)] =
                          JSONstringify((w.trimStart * duration) \div 100,
                                        (w.trimEnd * duration) \div 100),
                      !.lastSaved[w.videoId] = <<w.trimStart, w.trimEnd>>]
    IN setIsDragging(IF w.isDraggingState # None /\ w.videoId # None
                     THEN saved ELSE w,
                     None)

handleMouseUp(w) ==
    LET saved ==
            [w EXCEPT !.localStorage[StorageKey(w.videoId)] =
                          JSONstringify(w.trimStart, w.trimEnd),
                      !.lastSaved[w.videoId] = <<w.trimStart, w.trimEnd>>]
        duration == w.engDuration
        trimStartTime == w.trimStart * duration
        trimEndTime == w.trimEnd * duration
        currentPosition == w.engTime
        repositioned ==
            IF ~w.playerInstance THEN saved
            ELSE IF currentPosition < trimStartTime
            THEN [seekTo(saved, trimStartTime) EXCEPT !.currentTime = trimStartTime]
            ELSE IF currentPosition > trimEndTime /\ w.isPlaying
            THEN [seekTo(saved, trimStartTime) EXCEPT !.currentTime = trimStartTime]
            ELSE saved
    IN setIsDragging(IF w.isDraggingState # None /\ w.videoId # None
                     THEN repositioned ELSE w,
                     None)

TogglePlayPause ==
    /\ ControlsRendered
    /\ LET w0 == Begin("togglePlayPause")
       IN Apply(Commit(w0, togglePlayPause(w0)))

DragStart(handle) ==
    /\ ControlsRendered
    /\ gestures < MaxGestures
    /\ LET w0 == [Begin("dragStart") EXCEPT !.gestures = @ + 1]
       IN Apply(Commit(w0, handleDragStart(w0, handle)))

MouseMove(rawPosition) ==
    /\ DragListenersAttached
    /\ LET w0 == Begin("mouseMove")
       IN Apply(Commit(w0, handleMouseMove(w0, rawPosition)))

MouseUp ==
    /\ DragListenersAttached
    /\ LET w0 == Begin("mouseUp")
       IN Apply(Commit(w0, handleMouseUp(w0)))

\* ------------------------------------------------------------- dashboard
NoError == "null"
LoadFailed == "Failed to load more videos. Please try again later."

\* handleLoadMore, and with the page changed the start of fetchMoreVideos up to
\* its await of fetch(`/api/data?page=${page}&limit=${PAGE_SIZE}`).
LoadMore ==
    /\ page < MaxPage
    /\ IF ~isLoadingMoreVideos /\ hasMore
       THEN /\ page' = page + 1
            /\ isLoadingMoreVideos' = TRUE
            /\ error' = NoError
            /\ requests' = Append(requests, [page |-> page + 1, limit |-> PAGE_SIZE])
       ELSE UNCHANGED <<page, isLoadingMoreVideos, error, requests>>
    /\ UNCHANGED <<playerVars, displayVars, earlyVars, allData, videos, hasMore, replies>>

\* The server answers the oldest request; reading its data file may fail.
ServerGET(dataReadable) ==
    /\ requests # <<>>
    /\ replies' = Append(replies, GET(Head(requests), dataReadable))
    /\ requests' = Tail(requests)
    /\ UNCHANGED <<playerVars, displayVars, earlyVars, allData, videos, page, hasMore,
                   isLoadingMoreVideos, error>>

\* Variant: the loading flag is lowered only after a successful fetch.
FetchMoreVideosResume_NoFinally ==
    /\ replies # <<>>
    /\ LET response == Head(replies)
       IN IF ~response.ok
          THEN /\ error' = LoadFailed
               /\ UNCHANGED <<videos, hasMore, isLoadingMoreVideos>>
          ELSE /\ videos' = videos \o response.body.items
               /\ hasMore' = response.body.pagination.hasNextPage
               /\ isLoadingMoreVideos' = FALSE
               /\ UNCHANGED error
    /\ replies' = Tail(replies)
    /\ UNCHANGED <<playerVars, displayVars, earlyVars, allData, page, requests>>

\* fetchMoreVideos from its await on: try, catch and finally.
FetchMoreVideosResume ==
    /\ replies # <<>>
    /\ LET response == Head(replies)
       IN IF ~response.ok
          THEN /\ error' = LoadFailed
               /\ UNCHANGED <<videos, hasMore>>
          ELSE /\ videos' = videos \o response.body.items
               /\ hasMore' = response.body.pagination.hasNextPage
               /\ UNCHANGED error
    /\ isLoadingMoreVideos' = FALSE
    /\ replies' = Tail(replies)
    /\ UNCHANGED <<playerVars, displayVars, earlyVars, allData, page, requests>>

\* ------------------------------------------------------------- specification
\* The dashboard renders the player only with an item selected, and never
\* takes the selection away again.
DashboardSelections == Selections \ {NoVideo}

\* One visit of the dashboard page: the player is mounted once and stays.
Next ==
    \/ \E sel \in DashboardSelections : Mount(sel)
    \/ ScriptLoaded
    \/ \E sel \in DashboardSelections : Select(sel)
    \/ OnReady
    \/ \E data \in PlayerStates : OnStateChange(data)
    \/ EngineDuration
    \/ \E t \in EngineTimes : EngineTime(t)
    \/ Tick
    \/ RetryFire
    \/ TogglePlayPause
    \/ \E handle \in {"left", "right"} : DragStart(handle)
    \/ \E rawPosition \in RawPositions : MouseMove(rawPosition)
    \/ MouseUp

Spec == Init /\ [][Next]_vars

\* The component on its own: any selectedVideo prop, teardown and mounting
\* again, without the drag and transport inputs.
NextLifecycle ==
    \/ \E sel \in Selections : Mount(sel)
    \/ \E sel \in Selections : Remount(sel)
    \/ Unmount
    \/ ScriptLoaded
    \/ \E sel \in Selections : Select(sel)
    \/ OnReady
    \/ \E data \in PlayerStates : OnStateChange(data)
    \/ EngineDuration
    \/ Tick
    \/ RetryFire

SpecLifecycle == Init /\ [][NextLifecycle]_vars

\* A visit that finds the store entry of video "b" damaged: written by another
\* script of the origin, edited by hand, or cut off by a full quota.
InitDamagedStore ==
    /\ InitDashboard /\ InitDisplay /\ InitEarlyPlayer
    /\ windowYT = FALSE /\ scriptTags = 0 /\ scriptsLoaded = 0 /\ apiReadyCb = 0
    /\ localStorage = [k \in StorageKeys |->
                          IF k = StorageKey("a")
                          THEN JSONstringify(EarlierRange[1], EarlierRange[2])
                          ELSE TruncatedItem]
    /\ phase = "unmounted" /\ mountGen = 0 /\ selectedVideo = NoVideo
    /\ hasCleanup = FALSE
    /\ isPlaying = FALSE /\ videoDuration = 0 /\ currentTime = 0
    /\ trimStart = 0 /\ trimEnd = 100 /\ isDraggingState = None
    /\ videoId = None /\ playerReady = FALSE /\ isVideoLoading = FALSE
    /\ playerInstance = FALSE /\ intervalRef = FALSE
    /\ trimStartRef = 0 /\ trimEndRef = 100 /\ isDraggingRef = None
    /\ activePolls = 0 /\ retryChains = 0 /\ leakedTimers = 0
    /\ engConstructed = FALSE /\ engDestroyed = FALSE /\ engReadyFired = FALSE
    /\ engVideo = None /\ engDuration = 0 /\ engTime = 0
    /\ sent = <<>> /\ selects = 0 /\ gestures = 0
    /\ lastSaved = [id \in VideoIds |->
                       IF id = "a" THEN EarlierRange ELSE <<>>]

SpecDamagedStore == InitDamagedStore /\ [][Next]_vars

\* Playback on its own: a visit in which the handles are never touched.
NextPlayback ==
    \/ \E sel \in DashboardSelections : Mount(sel)
    \/ ScriptLoaded
    \/ \E sel \in DashboardSelections : Select(sel)
    \/ OnReady
    \/ \E data \in PlayerStates : OnStateChange(data)
    \/ EngineDuration
    \/ \E t \in EngineTimes : EngineTime(t)
    \/ Tick
    \/ RetryFire
    \/ TogglePlayPause

SpecPlayback == Init /\ [][NextPlayback]_vars

\* Playback with an engine that does report the duration of what it cued, and
\* with retry timeouts that fire.
SpecLoading ==
    Init /\ [][NextPlayback]_vars /\ WF_vars(EngineDuration) /\ WF_vars(RetryFire)

\* The trim slider on its own: selections, loads and drag gestures, with the
\* pointer anywhere on the track and off both of its ends; no playback.
NextDrag ==
    \/ \E sel \in DashboardSelections : Mount(sel)
    \/ ScriptLoaded
    \/ \E sel \in DashboardSelections : Select(sel)
    \/ OnReady
    \/ EngineDuration
    \/ RetryFire
    \/ \E handle \in {"left", "right"} : DragStart(handle)
    \/ \E rawPosition \in TrackPositions : MouseMove(rawPosition)
    \/ MouseUp

SpecDrag == Init /\ [][NextDrag]_vars

\* The dashboard: the listing it extends page by page, and the selection it
\* hands to the player.
NextDashboard ==
    \/ \E sel \in DashboardSelections : Mount(sel)
    \/ \E sel \in DashboardSelections : Select(sel)
    \/ LoadMore
    \/ \E dataReadable \in BOOLEAN : ServerGET(dataReadable)
    \/ FetchMoreVideosResume

SpecDashboard == Init /\ [][NextDashboard]_vars

\* The listing API on its own: one request with some page >= 1 and limit >= 1
\* against a dataset of some size, answered by the route.
InitListing ==
    /\ InitPlayer /\ InitDisplay /\ InitEarlyPlayer
    /\ allData \in 0..MaxItems
    /\ videos = getVideosData(allData, 1, PAGE_SIZE).items
    /\ hasMore = getVideosData(allData, 1, PAGE_SIZE).pagination.hasNextPage
    /\ page = 1 /\ isLoadingMoreVideos = FALSE /\ error = NoError
    /\ requests \in {<<[page |-> pg, limit |-> limit]>> :
                         pg \in 1..MaxPage, limit \in 1..MaxLimit}
    /\ replies = <<>>

NextListing == \E dataReadable \in BOOLEAN : ServerGET(dataReadable)

SpecListing == InitListing /\ [][NextListing]_vars

\* The time display on its own: a render formats some time between 0 and
\* MaxSeconds, or one of the long ones.
FormatInputs ==
    {100 * s + f : s \in 0..MaxSeconds, f \in {0, 99}} \cup LongTimes

InitTimeDisplay ==
    /\ InitPlayer /\ InitDashboard /\ InitEarlyPlayer
    /\ timeInput \in FormatInputs /\ timeShown = <<>>

\* {formatTime(currentTime)}
RenderTime ==
    /\ timeShown = <<>>
    /\ timeShown' = formatTime(timeInput)
    /\ UNCHANGED <<playerVars, dashboardVars, earlyVars, timeInput>>

NextTimeDisplay == RenderTime

SpecTimeDisplay == InitTimeDisplay /\ [][NextTimeDisplay]_vars

\* A visit during which the engine never reports the duration of what it cued
\* (the media is unavailable, or its metadata never arrives). Timers that are
\* scheduled do fire.
NextNoDuration ==
    \/ \E sel \in DashboardSelections : Mount(sel)
    \/ ScriptLoaded
    \/ \E sel \in DashboardSelections : Select(sel)
    \/ OnReady
    \/ \E data \in PlayerStates : OnStateChange(data)
    \/ Tick
    \/ RetryFire
    \/ TogglePlayPause

SpecNoDuration ==
    Init /\ [][NextNoDuration]_vars /\ WF_vars(RetryFire) /\ WF_vars(Tick)


\* ------------------------------------------------------------- earlier player
\* The earlier version of the component (src/unnamed/part_001). It keeps no
\* refs for the trim range or the playing flag: every function reads the
\* constants of the render that created it. The state is one record; the
\* field `closure` holds the values of the first render, which the init
\* effect (dependencies []) and everything it creates close over, and the
\* field `poll` the values the interval callback closes over.
EarlyRenderValues(p) ==
    [selectedVideo |-> p.selectedVideo, isPlaying |-> p.isPlaying,
     videoDuration |-> p.videoDuration,
     trimStart |-> p.trimStart, trimEnd |-> p.trimEnd]

EarlyBegin(op) == [earlyPlayer EXCEPT !.op = op, !.sent = <<>>]

\* new window.YT.Player(container, {videoId: selectedVideo?.id.videoId || '', ...}),
\* with the selectedVideo of the first render.
initializePlayer(p) ==
    IF p.playerInstance \/ ~(p.mounted /\ p.selectedVideo # NoVideo) THEN p
    ELSE [p EXCEPT !.playerInstance = TRUE,
                   !.engVideo = VideoIdOf(p.closure.selectedVideo),
                   !.engDuration = 0, !.engTime = 0, !.engState = UNSTARTED]

\* "Initialize YouTube Player once" effect
EarlyInitEffect(p) ==
    IF ~(p.mounted /\ p.selectedVideo # NoVideo) THEN p
    ELSE IF ~p.windowYT
    THEN [p EXCEPT !.scriptPending = TRUE]
    ELSE initializePlayer(p)

\* "Handle selected video changes" effect of the render p
EarlyHandleVideoChanges(p) ==
    IF p.selectedVideo = NoVideo \/ ~p.playerReady \/ ~p.playerInstance THEN p
    ELSE
    LET newVideoId == VideoIdOf(p.selectedVideo)
        savedTrim == p.localStorage[StorageKey(newVideoId)]
    IN IF newVideoId # p.videoId
       THEN LET loaded ==
                    IF savedTrim # NoItem
                    THEN [p EXCEPT !.videoId = newVideoId,
                                   !.trimStart = JSONparse(savedTrim).start,
                                   !.trimEnd = JSONparse(savedTrim).end]
                    ELSE [p EXCEPT !.videoId = newVideoId,
                                   !.trimStart = 0, !.trimEnd = 100]
            IN [cueVideoById(loaded, newVideoId) EXCEPT !.durationTimers = @ + 1]
       ELSE p

\* The render a step causes, and the effects whose dependencies changed.
RECURSIVE EarlyCommit(_, _)
EarlyCommit(old, p) ==
    IF ~p.mounted
       \/ <<old.selectedVideo, old.playerReady, old.videoId>>
              = <<p.selectedVideo, p.playerReady, p.videoId>>
    THEN p
    ELSE EarlyCommit(p, EarlyHandleVideoChanges(p))

\* The callback of setInterval(..., 200); c holds what it closes over.
EarlyPollCallback(p, c) ==
    IF ~p.playerInstance THEN p
    ELSE
    LET time == p.engTime
        p1 == [p EXCEPT !.currentTime = time]
        trimStartTime == c.trimStart * p.engDuration
        trimEndTime == c.trimEnd * p.engDuration
    IN IF (time >= trimEndTime \/ time < trimStartTime) /\ c.isPlaying
       THEN seekTo(p1, trimStartTime)
       ELSE p1

\* onPlayerReady of the render c
onPlayerReady(p, c) ==
    IF ~p.playerInstance THEN p
    ELSE [p EXCEPT !.videoDuration = p.engDuration,
                   !.isPlaying = (p.engState = PLAYING),
                   !.intervalRef = TRUE,
                   !.poll = c]

\* onPlayerStateChange of the render c
onPlayerStateChange(p, c, data) ==
    LET p1 == [p EXCEPT !.isPlaying = (data = PLAYING)]
        p2 == IF data = PLAYING
              THEN [p1 EXCEPT !.videoDuration = getDuration(p1)]
              ELSE p1
    IN IF data = ENDED
       THEN [p2 EXCEPT !.currentTime = c.videoDuration]
       ELSE p2

\* togglePlayPause of the latest render
EarlyTogglePlayPause(p) ==
    IF ~p.playerInstance THEN p
    ELSE IF p.isPlaying THEN pauseVideo(p)
    ELSE
    LET trimStartTime == p.trimStart * p.engDuration
        trimEndTime == p.trimEnd * p.engDuration
        currentPosition == p.engTime
    IN IF currentPosition < trimStartTime \/ currentPosition >= trimEndTime
       THEN playVideo(seekTo(p, trimStartTime))
       ELSE playVideo(p)

\* handleMouseMove of the latest render (the drag effect re-attaches it)
EarlyHandleMouseMove(p, rawPosition) ==
    IF p.isDragging = None \/ ~(p.mounted /\ p.selectedVideo # NoVideo) THEN p
    ELSE
    LET newPosition == Max(0, Min(100, rawPosition))
    IN IF p.isDragging = "left"
       THEN [p EXCEPT !.trimStart = Min(newPosition, p.trimEnd - 5)]
       ELSE [p EXCEPT !.trimEnd = Max(newPosition, p.trimStart + 5)]

\* handleMouseUp of the latest render
EarlyHandleMouseUp(p) ==
    LET saved ==
            [p EXCEPT !.localStorage[StorageKey(p.videoId)] =
                          JSONstringify(p.trimStart, p.trimEnd)]
        trimStartTime == p.trimStart * p.engDuration
        trimEndTime == p.trimEnd * p.engDuration
        currentPosition == p.engTime
        repositioned ==
            IF p.isPlaying /\ p.playerInstance
               /\ (currentPosition < trimStartTime \/ currentPosition > trimEndTime)
            THEN seekTo(saved, trimStartTime)
            ELSE saved
    IN [(IF p.isDragging # None /\ p.videoId # None THEN repositioned ELSE p)
           EXCEPT !.isDragging = None]

\* The handler's tag is kept in the commands it sent only.
EarlyApply(p) ==
    /\ earlyPlayer' = [p EXCEPT !.op = "none"]
    /\ UNCHANGED <<playerVars, dashboardVars, displayVars>>

\* The dashboard mounts the player with the video the user selected.
EarlyMount(sel) ==
    /\ ~earlyPlayer.mounted
    /\ LET p0 == [EarlyBegin("mount") EXCEPT !.mounted = TRUE, !.selectedVideo = sel]
           p1 == [p0 EXCEPT !.closure = EarlyRenderValues(p0)]
       IN EarlyApply(EarlyHandleVideoChanges(EarlyInitEffect(p1)))

\* The iframe_api script executes: window.onYouTubeIframeAPIReady is the
\* initializePlayer of the first render.
EarlyScriptLoaded ==
    /\ earlyPlayer.scriptPending
    /\ LET p0 == [EarlyBegin("scriptReady") EXCEPT !.windowYT = TRUE,
                                                     !.scriptPending = FALSE]
       IN EarlyApply(EarlyCommit(p0, initializePlayer(p0)))

EarlySelect(sel) ==
    /\ earlyPlayer.mounted
    /\ sel # earlyPlayer.selectedVideo
    /\ earlyPlayer.selects < MaxSelects
    /\ LET p0 == EarlyBegin("select")
           p1 == [p0 EXCEPT !.selectedVideo = sel, !.selects = @ + 1]
       IN EarlyApply(EarlyCommit(p0, p1))

\* events.onReady: () => { setPlayerReady(true); onPlayerReady(); }
EarlyOnReady ==
    /\ earlyPlayer.playerInstance /\ ~earlyPlayer.engReadyFired
    /\ LET p0 == [EarlyBegin("onReady") EXCEPT !.engReadyFired = TRUE]
           p1 == onPlayerReady([p0 EXCEPT !.playerReady = TRUE], p0.closure)
       IN EarlyApply(EarlyCommit(p0, p1))

\* events.onStateChange: onPlayerStateChange. The engine's state is not
\* recorded here: getPlayerState() is read at the ready notification only.
EarlyOnStateChange(data) ==
    /\ earlyPlayer.playerInstance /\ earlyPlayer.engReadyFired
    /\ LET p0 == EarlyBegin("onStateChange")
       IN EarlyApply(EarlyCommit(p0, onPlayerStateChange(p0, p0.closure, data)))

\* The engine has loaded the metadata of its media.
EarlyEngineDuration ==
    /\ earlyPlayer.playerInstance
    /\ earlyPlayer.engVideo # None /\ earlyPlayer.engDuration = 0
    /\ EarlyApply([EarlyBegin("engine") EXCEPT
                       !.engDuration = VideoLength(earlyPlayer.engVideo)])

\* Playback moves the position.
EarlyEngineTime(t) ==
    /\ earlyPlayer.playerInstance
    /\ earlyPlayer.engDuration > 0
    /\ t # earlyPlayer.engTime /\ t <= 100 * earlyPlayer.engDuration
    /\ EarlyApply([EarlyBegin("engine") EXCEPT !.engTime = t])

\* The 200 ms interval fires.
EarlyTick ==
    /\ earlyPlayer.intervalRef
    /\ LET p0 == EarlyBegin("tick")
       IN EarlyApply(EarlyCommit(p0, EarlyPollCallback(p0, p0.poll)))

\* The setTimeout(..., 500) of the selection effect fires.
EarlyDurationTimeout ==
    /\ earlyPlayer.durationTimers > 0
    /\ LET p0 == [EarlyBegin("durationTimeout") EXCEPT !.durationTimers = @ - 1]
           p1 == IF p0.playerInstance
                 THEN [p0 EXCEPT !.videoDuration = p0.engDuration]
                 ELSE p0
       IN EarlyApply(EarlyCommit(p0, p1))

EarlyPlayPause ==
    /\ earlyPlayer.mounted
    /\ LET p0 == EarlyBegin("togglePlayPause")
       IN EarlyApply(EarlyCommit(p0, EarlyTogglePlayPause(p0)))

EarlyDragStart(handle) ==
    /\ earlyPlayer.mounted
    /\ earlyPlayer.gestures < MaxGestures
    /\ LET p0 == [EarlyBegin("dragStart") EXCEPT !.gestures = @ + 1]
       IN EarlyApply(EarlyCommit(p0, [p0 EXCEPT !.isDragging = handle]))

EarlyMouseMove(rawPosition) ==
    /\ earlyPlayer.mounted /\ earlyPlayer.isDragging # None
    /\ LET p0 == EarlyBegin("mouseMove")
       IN EarlyApply(EarlyCommit(p0, EarlyHandleMouseMove(p0, rawPosition)))

EarlyMouseUp ==
    /\ earlyPlayer.mounted /\ earlyPlayer.isDragging # None
    /\ LET p0 == EarlyBegin("mouseUp")
       IN EarlyApply(EarlyCommit(p0, EarlyHandleMouseUp(p0)))

\* One visit of the dashboard page with the earlier player.
NextEarly ==
    \/ \E sel \in VideoIds : EarlyMount(sel)
    \/ EarlyScriptLoaded
    \/ \E sel \in VideoIds : EarlySelect(sel)
    \/ EarlyOnReady
    \/ \E data \in PlayerStates : EarlyOnStateChange(data)
    \/ EarlyEngineDuration
    \/ \E t \in EngineTimes : EarlyEngineTime(t)
    \/ EarlyTick
    \/ EarlyDurationTimeout
    \/ EarlyPlayPause
    \/ \E handle \in {"left", "right"} : EarlyDragStart(handle)
    \/ \E rawPosition \in RawPositions : EarlyMouseMove(rawPosition)
    \/ EarlyMouseUp

SpecEarly == Init /\ [][NextEarly]_vars


\* ------------------------------------------------------------- properties
Commands(ops) == {i \in 1..Len(sent) : sent[i].op \in ops}
Cued(id) == \E i \in Commands({"cueVideoById"}) : sent[i].id = id

\* C1: after every drag move event (and in every other state) the trim range
\* keeps the minimum gap: end - start >= 5.
C1_GapAfterEveryMove == trimEnd - trimStart >= MIN_GAP

\* The left handle, dragged past end = 80, stands clamped at 75.
C1_Witness ==
    /\ isDraggingState = "left" /\ trimEnd = 80 /\ trimStart = 75

\* C2: a poll tick with an engine instance and no drag gesture active seeks to
\* trimStart/100 * duration exactly when the time it reads is >= trimEnd/100 *
\* duration or < trimStart/100 * duration, and issues nothing otherwise.
C2_TickEnforcesBoundaries ==
    [][(playerInstance /\ isDraggingState = None /\ Tick) =>
          LET trimStartTime == trimStart * engDuration
              trimEndTime == trimEnd * engDuration
          IN sent' = IF engTime >= trimEndTime \/ engTime < trimStartTime
                     THEN <<SeekCmd(trimStartTime, "tick")>>
                     ELSE <<>>]_vars

\* Range {20,80}, duration 100 s: a tick that read the end position (80 s, the
\* only engine position not before it) looped back, the engine received seekTo(20).
C2_Witness ==
    /\ sent = <<SeekCmd(2000, "tick")>> /\ isDraggingState = None
    /\ trimStart = 20 /\ trimEnd = 80 /\ engDuration = 100
    /\ currentTime = 2000

\* C3: at most one time-poll interval of the player is scheduled, and it is the
\* one intervalRef holds; so a poll is only ever started with the old one stopped.
C3_AtMostOnePoll ==
    /\ activePolls <= 1
    /\ intervalRef <=> (activePolls = 1)

\* A new video was selected and cued while the poll was running.
C3_Witness ==
    /\ \E id \in VideoIds : sent = <<CueCmd(id, "select")>>
    /\ activePolls = 1 /\ selects = 2

\* C4: every cue is for the video selected at that moment, and the ready
\* notification of a mounted player with a video selected cues exactly that video.
C4_ReadyCuesLatest ==
    [][/\ \A i \in 1..Len(sent') :
             sent'[i].op = "cueVideoById" => sent'[i].id = VideoIdOf(selectedVideo')
       /\ (phase = "mounted" /\ VideoIdOf(selectedVideo) # None /\ OnReady)
             => sent' = <<CueCmd(VideoIdOf(selectedVideo), "onReady")>>]_vars

\* The ready notification arrived after two selection changes.
C4_Witness ==
    /\ sent = <<CueCmd(VideoIdOf(selectedVideo), "onReady")>>
    /\ selects = 2

\* C5: when a video is selected and its range loaded, the range shown is exactly
\* the one last persisted for that video.
C5_RoundTrip ==
    \A id \in VideoIds :
        (Cued(id) /\ lastSaved[id] # <<>>) => <<trimStart, trimEnd>> = lastSaved[id]

\* Video "b" was given a range by a gesture, left, and selected again.
C5_Witness ==
    /\ sent = <<CueCmd("b", "select")>> /\ lastSaved["b"] # <<>>
    /\ <<trimStart, trimEnd>> # <<0, 100>>

C7_NoTimerAfterUnmount ==
    phase = "destroyed" => (activePolls = 0 /\ retryChains = 0)

\* C8: at most one "waiting for duration" retry chain is scheduled.
C8_AtMostOneRetryChain == retryChains <= 1

\* C9: the bootstrap script is injected at most once.
C9_ScriptInjectedOnce == scriptTags <= 1

\* C10: play, pause and seek commands reach the engine only when an instance
\* exists and has reported ready.
C10_CommandsOnlyWhenReady ==
    Commands({"playVideo", "pauseVideo", "seekTo"}) # {}
        => (playerInstance /\ engReadyFired)

\* C11: when the stored text of the newly selected video does not parse, the
\* step that loads it (a selection change, or the ready notification) leaves the
\* player mounted, shows the default range {0,100}, cues the video and sets the
\* loading flag.
C11_DamagedEntryFallsBack ==
    [][\A id \in VideoIds :
          (/\ phase = "mounted" /\ videoId # id
           /\ VideoIdOf(selectedVideo') = id /\ engReadyFired' /\ ~engDestroyed
           /\ ~SyntaxOK(localStorage[StorageKey(id)]))
          => /\ phase' = "mounted"
             /\ Cued(id)' /\ videoId' = id /\ isVideoLoading'
             /\ trimStart' = 0 /\ trimEnd' = 100]_vars

\* C12: when the engine never reports a positive duration, the retry chain of
\* the duration check gives up: from some point on no check is scheduled.
C12_RetryGivesUp == <>[](retryChains = 0)

\* C13: while the loading flag is set and the engine has reported no positive
\* duration, the play/pause command sends nothing to the engine.
C13_InertWhileLoading ==
    (isVideoLoading /\ engDuration = 0)
        => \A i \in 1..Len(sent) : sent[i].by # "togglePlayPause"

\* C14: a play command while paused sends seekTo(trimStartTime) and then
\* playVideo when the engine's position is outside [trimStartTime, trimEndTime),
\* and playVideo alone when it is inside.
C14_PlaySeeksWhenOutside ==
    [][(playerInstance /\ ~isPlaying /\ TogglePlayPause) =>
          LET trimStartTime == trimStart * engDuration
              trimEndTime == trimEnd * engDuration
          IN sent' = IF engTime < trimStartTime \/ engTime >= trimEndTime
                     THEN <<SeekCmd(trimStartTime, "togglePlayPause"),
                            PlayCmd("togglePlayPause")>>
                     ELSE <<PlayCmd("togglePlayPause")>>]_vars

\* Range {20,80} of a 100 s video: play was pressed with the position outside
\* the range, the engine received seekTo(20 s) and then playVideo.
C14_Witness ==
    /\ sent = <<SeekCmd(2000, "togglePlayPause"), PlayCmd("togglePlayPause")>>
    /\ trimStart = 20 /\ trimEnd = 80 /\ engDuration = 100 /\ ~isPlaying

\* C15: a poll tick sends a command to the engine exactly when no handle is
\* captured and the time it reads is outside the trim range: while a drag gesture
\* is active it sends nothing, wherever the time is, and the ticks after the
\* release enforce the boundaries again.
C15_DragSuspendsEnforcement ==
    [][(activePolls > 0 /\ playerInstance /\ Tick) =>
          LET outside == \/ engTime >= trimEnd * engDuration
                         \/ engTime < trimStart * engDuration
          IN (sent' # <<>>) <=> (isDraggingState = None /\ outside)]_vars

\* A handle is captured, the position has reached the end (80 s), and the tick
\* that read it left it there.
C15_Witness ==
    /\ isDraggingState # None /\ activePolls = 1 /\ sent = <<>>
    /\ trimEnd = 80 /\ engDuration = 100 /\ engTime = 8000 /\ currentTime = 8000

\* C16: a drag move to raw track position p sets the left handle to
\* min(clamp(p, 0, 100), end - 5) and leaves the end, or sets the right handle to
\* max(clamp(p, 0, 100), start + 5) and leaves the start.
C16_MoveClampsHandle ==
    [][\A p \in TrackPositions :
          (isDraggingState # None /\ MouseMove(p)) =>
              LET clamped == Max(0, Min(100, p))
              IN IF isDraggingState = "left"
                 THEN /\ trimStart' = Min(clamped, trimEnd - 5)
                      /\ trimEnd' = trimEnd
                 ELSE /\ trimEnd' = Max(clamped, trimStart + 5)
                      /\ trimStart' = trimStart]_vars

\* The left handle was dragged to 85 with the end at 80 and stands at 75; the
\* pointer is the only thing that moved.
C16_Witness ==
    /\ isDraggingState = "left" /\ isDraggingRef = "left"
    /\ trimStart = 75 /\ trimEnd = 80 /\ sent = <<>> /\ gestures = 1

\* C17: the release that ends a drag gesture on a selected video stores the
\* range then shown under that video's identifier, whether or not the engine
\* has become ready.
C17_ReleasePersists ==
    [][(/\ isDraggingState # None /\ isDraggingState' = None
        /\ phase = "mounted" /\ VideoIdOf(selectedVideo) # None)
       => localStorage'[StorageKey(VideoIdOf(selectedVideo))]
              = JSONstringify(trimStart', trimEnd')]_vars

\* C18: when a release ends a gesture while playback is active and the engine's
\* position is below the new trimStartTime or at/after the new trimEndTime, the
\* engine receives seekTo(new trimStartTime).
C18_ReleaseRepositions ==
    [][(/\ isDraggingState # None /\ isDraggingState' = None
        /\ phase = "mounted" /\ playerInstance /\ isPlaying
        /\ videoId # None /\ engDuration > 0
        /\ \/ engTime < trimStart * engDuration
           \/ engTime >= trimEnd * engDuration)
       => sent' = <<SeekCmd(trimStart * engDuration, "mouseUp")>>]_vars

\* C19: in every state the trim range has 0 <= start < 100 and 0 < end <= 100.
C19_RangeWithinTrack ==
    /\ 0 <= trimStart /\ trimStart < 100
    /\ 0 < trimEnd /\ trimEnd <= 100

\* The stored range {20,80} was loaded and the right handle then dragged off the
\* right end of the track: it stands at 100.
C19_Witness ==
    /\ isDraggingState = "right" /\ videoId = "a"
    /\ trimStart = 20 /\ trimEnd = 100

\* C20: while a handle is captured, only a drag move changes the trim range.
C20_OnlyMovesChangeRange ==
    [][(/\ isDraggingState # None
        /\ <<trimStart', trimEnd'>> # <<trimStart, trimEnd>>)
       => \E p \in RawPositions : MouseMove(p)]_vars

\* C21: the time display of t >= 0 is floor(s / 60), a colon, and floor(s mod 60)
\* as two digits, s being t in seconds; 20 % and 80 % of 100 s read 0:20 and 1:20.
C21_MinutesColonTwoDigits ==
    /\ timeShown # <<>> =>
          LET s == timeInput \div 100
          IN timeShown = NumberToString(s \div 60)
                            \o <<":", DigitChars[((s % 60) \div 10) + 1],
                                      DigitChars[((s % 60) % 10) + 1]>>
    /\ formatTime(20 * 100) = <<"0", ":", "2", "0">>
    /\ formatTime(80 * 100) = <<"1", ":", "2", "0">>

\* 80 % of 100 s, with a fraction of a second, is on the page as 1:20.
C21_Witness == timeInput = 8099 /\ timeShown = <<"1", ":", "2", "0">>

\* C22: the step that delivers a failed fetch leaves the video list and the
\* selection as they were, sets the error message and lowers the loading flag.
C22_FailedFetchKeepsList ==
    [][(replies # <<>> /\ ~Head(replies).ok /\ replies' = Tail(replies))
       => /\ videos' = videos /\ selectedVideo' = selectedVideo
          /\ error' = LoadFailed /\ ~isLoadingMoreVideos']_vars

\* The fetch of page 2 has failed: the message is shown over the ten items of
\* page 1, with a video selected.
C22_Witness ==
    /\ error = LoadFailed /\ ~isLoadingMoreVideos /\ page = 2
    /\ videos = [i \in 1..PAGE_SIZE |-> i] /\ selectedVideo \in VideoIds
    /\ requests = <<>> /\ replies = <<>>

\* C29: the video list is the concatenation, in order, of pages 1..k of the
\* dataset for some k.
C29_ListIsPagePrefix ==
    \E k \in 1..MaxPage :
        videos = [i \in 1..Min(k * PAGE_SIZE, allData) |-> i]

\* C30: for a dataset of N items, page >= 1 and limit >= 1 the answer has items =
\* the slice [(page-1)*limit, page*limit) of the dataset, total = N, totalPages =
\* ceil(N/limit), hasPrevPage iff page > 1, and hasNextPage iff page*limit < N,
\* which is the same as page < totalPages.
C30_PageOfDataset ==
    \A i \in 1..Len(replies) :
        replies[i].ok =>
            LET data == replies[i].body
                pg == data.pagination.page
                limit == data.pagination.limit
                N == allData
                first == (pg - 1) * limit
                count == Max(0, Min(pg * limit, N) - first)
            IN /\ pg \in 1..MaxPage /\ limit \in 1..MaxLimit
               /\ data.items = [k \in 1..count |-> first + k]
               /\ data.pagination.total = N
               /\ data.pagination.totalPages * limit >= N
               /\ (data.pagination.totalPages - 1) * limit < N
               /\ data.pagination.hasPrevPage <=> (pg > 1)
               /\ data.pagination.hasNextPage <=> (pg * limit < N)
               /\ data.pagination.hasNextPage <=> (pg < data.pagination.totalPages)

\* Page 2 with limit 3 of seven items: items 4..6, three pages, one more to come.
C30_Witness ==
    /\ allData = 7 /\ Len(replies) = 1 /\ replies[1].ok
    /\ replies[1].body.items = <<4, 5, 6>>
    /\ replies[1].body.pagination.totalPages = 3
    /\ replies[1].body.pagination.hasNextPage

\* C23: a state notification of the mounted player leaves the poll running and
\* isPlaying true when the state is PLAYING, and the poll stopped and isPlaying
\* false for every other state; so in every state of the mounted player the
\* poll is scheduled exactly when the last reported state is PLAYING.
C23_PollFollowsEngineState ==
    [][/\ \A data \in PlayerStates :
             (phase = "mounted" /\ engReadyFired /\ OnStateChange(data))
                => /\ isPlaying' = (data = PLAYING)
                   /\ intervalRef' = (data = PLAYING)
                   /\ activePolls' = IF data = PLAYING THEN 1 ELSE 0
       /\ phase' = "mounted" => (isPlaying' <=> activePolls' = 1)]_vars

\* PLAYING was reported for the 100 s video and the poll is running.
C23_Witness ==
    /\ phase = "mounted" /\ isPlaying /\ intervalRef /\ activePolls = 1
    /\ videoDuration = 100 /\ sent = <<>>

\* The start of the range the store holds for the loaded video, 0 without one.
LoadedStart ==
    LET savedTrim == localStorage[StorageKey(videoId)]
    IN IF savedTrim = NoItem THEN 0 ELSE JSONparse(savedTrim).start

\* C24: a duration retry that finds a positive duration D while the loading flag
\* is set makes D the duration, trimStart/100 * D the displayed time, trimStart
\* being that of the range loaded for the video (as long as no handle is held),
\* clears the loading flag and sends nothing to the engine.
C24_RetryResolvesDuration ==
    [][(/\ isVideoLoading /\ playerInstance /\ engDuration > 0 /\ retryChains > 0
        /\ RetryFire)
       => /\ videoDuration' = engDuration
          /\ currentTime' = trimStart * engDuration
          /\ isDraggingState = None => trimStart = LoadedStart
          /\ ~isVideoLoading'
          /\ sent' = <<>>]_vars

\* The 100 s of video "a" are known and the display stands at 20 s, the start
\* of its stored range.
C24_Witness ==
    /\ ~isVideoLoading /\ videoId = "a" /\ videoDuration = 100
    /\ trimStart = 20 /\ currentTime = 2000 /\ retryChains = 0 /\ sent = <<>>

\* C25: a mounted player has started the initialization of the engine, with or
\* without a video selected: the engine is constructed, or the script that will
\* construct it for this mount is on its way.
C25_MountInitializes ==
    phase = "mounted"
        => \/ playerInstance
           \/ (scriptsLoaded < scriptTags /\ apiReadyCb = mountGen)

\* C26: with the engine ready and the selection processed, the identifier of
\* the loaded video is that of the selected item.
C26_LoadedIsSelected ==
    (phase = "mounted" /\ selectedVideo # NoVideo /\ playerReady /\ playerInstance)
        => videoId = VideoIdOf(selectedVideo)

\* C27: when the engine comes to report a positive duration, the loading flag
\* eventually becomes false; once false it is raised again only by a selection
\* change (or, before any video was loaded, by the ready notification).
C27_LoadingEnds ==
    /\ isVideoLoading ~> ~isVideoLoading
    /\ [][(~isVideoLoading /\ isVideoLoading')
             => (selectedVideo' # selectedVideo \/ ~playerReady)]_vars

\* After two selection changes the duration of the selected video is known and
\* the loading flag is down.
C27_Witness ==
    /\ ~isVideoLoading /\ selects = 2 /\ videoId = VideoIdOf(selectedVideo)
    /\ videoDuration = VideoLength(videoId) /\ retryChains = 0

\* C28: a step that changes the store (a release) changes only the entry of the
\* video selected at that moment, and writes the range shown at the release.
C28_ReleaseWritesSelected ==
    [][(localStorage' # localStorage)
         => \E id \in VideoIds :
                /\ id = VideoIdOf(selectedVideo)
                /\ \A k \in StorageKeys \ {StorageKey(id)} :
                       localStorage'[k] = localStorage[k]
                /\ localStorage'[StorageKey(id)] = JSONstringify(trimStart, trimEnd)]_vars

\* C31: in the earlier player, a tick of the poll while the component is playing
\* and the engine's position is at or past the end, or before the start, of the
\* trim range in effect at the tick sends seekTo(trimStartTime) of that range.
C31_EarlyTickEnforcesCurrentRange ==
    [][LET p == earlyPlayer
           trimStartTime == p.trimStart * p.engDuration
           trimEndTime == p.trimEnd * p.engDuration
       IN (/\ p.playerInstance /\ p.isPlaying /\ p.engDuration > 0
           /\ (p.engTime >= trimEndTime \/ p.engTime < trimStartTime)
           /\ EarlyTick)
              => earlyPlayer'.sent = <<SeekCmd(trimStartTime, "tick")>>]_vars

====
